---- MODULE Spec2Model ----
(***************************************************************************)
(* Model of the device-metrics collection core of node_exporter            *)
(* (bizflycloud fork): the GPU collector (collector/gpu_common.go) and the *)
(* Windows network-device collector (collector/netdev_windows.go).         *)
(*                                                                         *)
(* A collection pass is a sequential function; every vendor / platform     *)
(* call is one step of the state machine, so that call order, early        *)
(* returns and the deferred Shutdown are visible to the properties.        *)
(***************************************************************************)
EXTENDS Integers, Sequences, FiniteSets, TLC

\* ------------------------------------------------------------------ bounds
\* Largest device count the vendor API reports in the model.
MaxDevices == 2

\* Longest interface list the platform API returns in the model.
MaxIfaces == 2

\* --------------------------------------------------------------- variables
VARIABLES
  \* ---- GPU collector
  gpuPc,        \* position of the GPU pass
  hw,           \* vendor side of this pass: driver version, device count, telemetry variant
  initialized,  \* TRUE while the GPU management API is initialized (NVML library state)
  deferred,     \* deferred calls registered by collectMetricDevice
  shutdowns,    \* number of gonvml.Shutdown calls made in this pass
  calls,        \* vendor calls made in this pass, in order
  failedAt,     \* position in calls of the vendor call that failed, 0 if none
  index,        \* loop variable of collectMetricDevice
  numDevices,   \* local numDevices
  device,       \* local device handle
  readPos,      \* position in ReadOrder of the next read of the current device
  loc,          \* locals holding the telemetry read so far for the current device
  metrics,      \* local *gpuMetrics
  retMetrics,   \* first result of collectMetricDevice
  retErr,       \* second result of collectMetricDevice
  ch,           \* samples sent by Update in this pass
  updateRet,    \* value returned by Update to the poller
  logged,       \* TRUE when Update logged "gpu information is unavailable to collect"
  \* ---- network collector
  netPc,        \* position of the network pass
  filter,       \* the device filter, read-only after construction
  ni,           \* interface records returned by net.IOCounters in this pass
  pos,          \* position of the range loop in ni (1-based)
  netDev,       \* local netDevStats map being built
  netRet,       \* first result of getNetDevStats
  netErr,       \* second result of getNetDevStats
  queryFailed,  \* TRUE when net.IOCounters returned an error in this pass
  marshalErrs,  \* number of records whose json.Marshal failed in this pass
  decodeErrs,   \* number of records whose json.Unmarshal returned an error in this pass
  prevPass      \* inputs and results of the previous completed network pass

gpuVars == <<gpuPc, hw, initialized, deferred, shutdowns, calls, failedAt, index,
             numDevices, device, readPos, loc, metrics, retMetrics, retErr, ch, updateRet, logged>>

netVars == <<netPc, filter, ni, pos, netDev, netRet, netErr, queryFailed, marshalErrs, decodeErrs, prevPass>>

vars == <<gpuVars, netVars>>

\* Go's nil error; a non-nil error is the string Err(call).
Nil == "nil"

Err(name) == "error: " \o name

\* Pointers and maps that may be nil: NilRef is nil, Ref(x) refers to x.
NilRef == << >>

Ref(x) == << x >>

Deref(p) == p[1]

\* ======================================================================
\*                              GPU collector
\* ======================================================================

\* averageDuration = 10 * time.Second, in seconds.
averageDuration == 10

\* strconv.Itoa for the integers of the model.
Digits == <<"0", "1", "2", "3", "4", "5", "6", "7", "8", "9">>

RECURSIVE ItoaNat(_)
ItoaNat(n) == IF n < 10 THEN Digits[n + 1]
              ELSE ItoaNat(n \div 10) \o Digits[(n % 10) + 1]

Itoa(n) == IF n < 0 THEN "-" \o ItoaNat(0 - n) ELSE ItoaNat(n)

\* float64(x) of an unsigned integer: exact below 2^53, which covers the model.
Float64(x) == x

\* ---- vendor side ------------------------------------------------------
\* Telemetry a device handle reports.  h is the index the handle was
\* resolved for, v the variant of this pass; devices differ in every field.
DriverVersions == {"440.33", "450.51"}
Variants == {0, 1}

Telemetry(h, v) ==
  [ UUID         |-> "GPU-" \o Itoa(h),
    Name         |-> "Tesla-" \o Itoa(h + v),
    MinorNumber  |-> h + 10,
    Temperature  |-> 40 + h + v,
    PowerUsage   |-> 100 + (20 * h) + v,
    FanSpeed     |-> 30 + h,
    MemoryTotal  |-> 16000 + (1000 * h),
    MemoryUsed   |-> 500 + (100 * h) + v,
    UtilGPU      |-> 70 + h,
    UtilMemory   |-> 20 + h + v,
    UtilGPUAvg   |-> 60 + h + (averageDuration * v) ]

HwStates == [version : DriverVersions, count : 0..MaxDevices, variant : Variants]

\* ---- the calls of one pass -------------------------------------------
\* Per-device reads in the order of the loop body.
ReadOrderSwapped ==
  << "Name", "UUID", "MinorNumber", "Temperature", "PowerUsage", "FanSpeed",
     "MemoryInfo", "UtilizationRates", "AverageGPUUtilization" >>

ReadOrder ==
  << "UUID", "Name", "MinorNumber", "Temperature", "PowerUsage", "FanSpeed",
     "MemoryInfo", "UtilizationRates", "AverageGPUUtilization" >>

Call(name, i) == [call |-> name, index |-> i]

\* Locals a successful read assigns.
ReadInto(l, name, t) ==
  CASE name = "UUID"                  -> [l EXCEPT !.uuid = t.UUID]
    [] name = "Name"                  -> [l EXCEPT !.name = t.Name]
    [] name = "MinorNumber"           -> [l EXCEPT !.minorNumber = t.MinorNumber]
    [] name = "Temperature"           -> [l EXCEPT !.temperature = t.Temperature]
    [] name = "PowerUsage"            -> [l EXCEPT !.powerUsage = t.PowerUsage]
    [] name = "FanSpeed"              -> [l EXCEPT !.fanSpeed = t.FanSpeed]
    [] name = "MemoryInfo"            -> [l EXCEPT !.memoryTotal = t.MemoryTotal,
                                                   !.memoryUsed = t.MemoryUsed]
    [] name = "UtilizationRates"      -> [l EXCEPT !.utilizationGPU = t.UtilGPU,
                                                   !.utilizationMemory = t.UtilMemory]
    [] name = "AverageGPUUtilization" -> [l EXCEPT !.utilizationGPUAverage = t.UtilGPUAvg]

NoLocals ==
  [ uuid |-> "", name |-> "", minorNumber |-> 0, temperature |-> 0, powerUsage |-> 0,
    fanSpeed |-> 0, memoryTotal |-> 0, memoryUsed |-> 0, utilizationGPU |-> 0,
    utilizationMemory |-> 0, utilizationGPUAverage |-> 0 ]

\* The gpuDevice literal appended at the end of the loop body.
NewGpuDeviceSwapped(i, l) ==
  [ Index                 |-> Itoa(i),
    MinorNumber           |-> Itoa(l.minorNumber),
    Name                  |-> l.name,
    UUID                  |-> l.uuid,
    Temperature           |-> Float64(l.temperature),
    PowerUsage            |-> Float64(l.powerUsage),
    FanSpeed              |-> Float64(l.fanSpeed),
    MemoryTotal           |-> Float64(l.memoryUsed),
    MemoryUsed            |-> Float64(l.memoryTotal),
    UtilizationMemory     |-> Float64(l.utilizationMemory),
    UtilizationGPU        |-> Float64(l.utilizationGPU),
    UtilizationGPUAverage |-> Float64(l.utilizationGPUAverage) ]

NewGpuDevice(i, l) ==
  [ Index                 |-> Itoa(i),
    MinorNumber           |-> Itoa(l.minorNumber),
    Name                  |-> l.name,
    UUID                  |-> l.uuid,
    Temperature           |-> Float64(l.temperature),
    PowerUsage            |-> Float64(l.powerUsage),
    FanSpeed              |-> Float64(l.fanSpeed),
    MemoryTotal           |-> Float64(l.memoryTotal),
    MemoryUsed            |-> Float64(l.memoryUsed),
    UtilizationMemory     |-> Float64(l.utilizationMemory),
    UtilizationGPU        |-> Float64(l.utilizationGPU),
    UtilizationGPUAverage |-> Float64(l.utilizationGPUAverage) ]

\* `defer gonvml.Shutdown()`: the calls deferred once Initialize succeeded.
NoDefers == << >>

Defers == << "Shutdown" >>

\* First result of every `return nil, err` of collectMetricDevice.
ErrResultPartial(m) == m

ErrResult(m) == NilRef

\* What Update returns when collectMetricDevice returned err.
UpdateErrPropagated(err) == err

UpdateErrReturn(err) == Nil

\* ---- sample emission ---------------------------------------------------
\* The eight MustNewConstMetric sends of Update, in order.
MetricDescs ==
  << [desc |-> "gpu_Temperature",           kind |-> "gauge",   field |-> "Temperature"],
     [desc |-> "gpu_PowerUsage",            kind |-> "gauge",   field |-> "PowerUsage"],
     [desc |-> "gpu_FanSpeed",              kind |-> "gauge",   field |-> "FanSpeed"],
     [desc |-> "gpu_MemoryTotal_Bytes",     kind |-> "counter", field |-> "MemoryTotal"],
     [desc |-> "gpu_MemoryUsed_Bytes",      kind |-> "gauge",   field |-> "MemoryUsed"],
     [desc |-> "gpu_UtilizationMemory",     kind |-> "gauge",   field |-> "UtilizationMemory"],
     [desc |-> "gpu_UtilizationGPU",        kind |-> "gauge",   field |-> "UtilizationGPU"],
     [desc |-> "gpu_UtilizationGPUAverage", kind |-> "gauge",   field |-> "UtilizationGPUAverage"] >>

Sample(m, d, version) ==
  [ desc   |-> m.desc,
    kind   |-> m.kind,
    value  |-> d[m.field],
    labels |-> << d.MinorNumber, d.Name, d.UUID, version >> ]

\* Everything Update sends on ch for a non-nil gpuMetrics.
Samples(gpu) ==
  LET n == Len(MetricDescs)
  IN  [ k \in 1..(n * Len(gpu.Devices)) |->
          Sample(MetricDescs[((k - 1) % n) + 1],
                 gpu.Devices[((k - 1) \div n) + 1],
                 gpu.Version) ]

\* ---- actions -----------------------------------------------------------
GpuInit ==
  /\ gpuPc = "idle"
  /\ hw = [version |-> "440.33", count |-> 0, variant |-> 0]
  /\ initialized = FALSE
  /\ deferred = << >>
  /\ shutdowns = 0
  /\ calls = << >>
  /\ failedAt = 0
  /\ index = 0
  /\ numDevices = 0
  /\ device = 0
  /\ readPos = 1
  /\ loc = NoLocals
  /\ metrics = NilRef
  /\ retMetrics = NilRef
  /\ retErr = Nil
  /\ ch = << >>
  /\ updateRet = Nil
  /\ logged = FALSE

\* A `return nil, err` of collectMetricDevice after the call `name` failed.
FailReturn(name) ==
  /\ failedAt' = Len(calls) + 1
  /\ retMetrics' = ErrResult(metrics)
  /\ retErr' = Err(name)
  /\ gpuPc' = "defer"

\* The poller calls Update, which enters collectMetricDevice.
UpdateStart ==
  /\ UNCHANGED netVars
  /\ gpuPc \in {"idle", "done"}
  /\ hw' \in HwStates
  /\ gpuPc' = "Initialize"
  /\ deferred' = << >>
  /\ shutdowns' = 0
  /\ calls' = << >>
  /\ failedAt' = 0
  /\ index' = 0
  /\ numDevices' = 0
  /\ device' = 0
  /\ readPos' = 1
  /\ loc' = NoLocals
  /\ metrics' = NilRef
  /\ retMetrics' = NilRef
  /\ retErr' = Nil
  /\ ch' = << >>
  /\ updateRet' = Nil
  /\ logged' = FALSE
  /\ UNCHANGED initialized

\* gonvml.Initialize() and the defer that follows its success.
Initialize ==
  /\ UNCHANGED netVars
  /\ gpuPc = "Initialize"
  /\ calls' = Append(calls, Call("Initialize", -1))
  /\ \/ /\ initialized' = TRUE
        /\ deferred' = Defers
        /\ gpuPc' = "SystemDriverVersion"
        /\ UNCHANGED <<failedAt, retMetrics, retErr>>
     \/ /\ FailReturn("Initialize")
        /\ UNCHANGED <<initialized, deferred>>
  /\ UNCHANGED <<hw, shutdowns, index, numDevices, device, readPos, loc, metrics,
                 ch, updateRet, logged>>

\* gonvml.SystemDriverVersion() and the construction of metrics.
SystemDriverVersion ==
  /\ UNCHANGED netVars
  /\ gpuPc = "SystemDriverVersion"
  /\ calls' = Append(calls, Call("SystemDriverVersion", -1))
  /\ \/ /\ metrics' = Ref([Version |-> hw.version, Devices |-> << >>])
        /\ gpuPc' = "DeviceCount"
        /\ UNCHANGED <<failedAt, retMetrics, retErr>>
     \/ /\ FailReturn("SystemDriverVersion")
        /\ UNCHANGED metrics
  /\ UNCHANGED <<hw, initialized, deferred, shutdowns, index, numDevices, device,
                 readPos, loc, ch, updateRet, logged>>

\* gonvml.DeviceCount() and the initialisation of the loop.
DeviceCount ==
  /\ UNCHANGED netVars
  /\ gpuPc = "DeviceCount"
  /\ calls' = Append(calls, Call("DeviceCount", -1))
  /\ \/ /\ numDevices' = hw.count
        /\ index' = 0
        /\ gpuPc' = "loop"
        /\ UNCHANGED <<failedAt, retMetrics, retErr>>
     \/ /\ FailReturn("DeviceCount")
        /\ UNCHANGED <<numDevices, index>>
  /\ UNCHANGED <<hw, initialized, deferred, shutdowns, device, readPos, loc, metrics,
                 ch, updateRet, logged>>

\* Loop condition true: gonvml.DeviceHandleByIndex(uint(index)).
DeviceHandleByIndex ==
  /\ UNCHANGED netVars
  /\ gpuPc = "loop"
  /\ index < numDevices
  /\ calls' = Append(calls, Call("DeviceHandleByIndex", index))
  /\ \/ /\ device' = index
        /\ loc' = NoLocals
        /\ readPos' = 1
        /\ gpuPc' = "read"
        /\ UNCHANGED <<failedAt, retMetrics, retErr>>
     \/ /\ FailReturn("DeviceHandleByIndex")
        /\ UNCHANGED <<device, loc, readPos>>
  /\ UNCHANGED <<hw, initialized, deferred, shutdowns, index, numDevices, metrics,
                 ch, updateRet, logged>>

\* One telemetry read of the loop body: device.UUID() ... device.AverageGPUUtilization().
DeviceRead ==
  /\ UNCHANGED netVars
  /\ gpuPc = "read"
  /\ LET name == ReadOrder[readPos]
     IN  /\ calls' = Append(calls, Call(name, device))
         /\ \/ /\ loc' = ReadInto(loc, name, Telemetry(device, hw.variant))
               /\ IF readPos = Len(ReadOrder)
                    THEN gpuPc' = "append" /\ UNCHANGED readPos
                    ELSE gpuPc' = "read" /\ readPos' = readPos + 1
               /\ UNCHANGED <<failedAt, retMetrics, retErr>>
            \/ /\ FailReturn(name)
               /\ UNCHANGED <<loc, readPos>>
  /\ UNCHANGED <<hw, initialized, deferred, shutdowns, index, numDevices, device,
                 metrics, ch, updateRet, logged>>

\* metrics.Devices = append(metrics.Devices, gpuDevice{...}); index++.
AppendDevice ==
  /\ UNCHANGED netVars
  /\ gpuPc = "append"
  /\ metrics' = Ref([Deref(metrics) EXCEPT
                       !.Devices = Append(@, NewGpuDevice(index, loc))])
  /\ index' = index + 1
  /\ gpuPc' = "loop"
  /\ UNCHANGED <<hw, initialized, deferred, shutdowns, calls, failedAt, numDevices,
                 device, readPos, loc, retMetrics, retErr, ch, updateRet, logged>>

\* Loop condition false: return metrics, nil.
ReturnMetrics ==
  /\ UNCHANGED netVars
  /\ gpuPc = "loop"
  /\ index >= numDevices
  /\ retMetrics' = metrics
  /\ retErr' = Nil
  /\ gpuPc' = "defer"
  /\ UNCHANGED <<hw, initialized, deferred, shutdowns, calls, failedAt, index,
                 numDevices, device, readPos, loc, metrics, ch, updateRet, logged>>

\* The deferred calls run as collectMetricDevice returns.
RunDeferred ==
  /\ UNCHANGED netVars
  /\ gpuPc = "defer"
  /\ calls' = calls \o [k \in 1..Len(deferred) |-> Call(deferred[k], -1)]
  /\ shutdowns' = shutdowns + Len(SelectSeq(deferred, LAMBDA c : c = "Shutdown"))
  /\ initialized' = IF \E k \in 1..Len(deferred) : deferred[k] = "Shutdown"
                      THEN FALSE ELSE initialized
  /\ deferred' = << >>
  /\ gpuPc' = "returned"
  /\ UNCHANGED <<hw, failedAt, index, numDevices, device, readPos, loc, metrics,
                 retMetrics, retErr, ch, updateRet, logged>>

\* The rest of Update: log and return on error, else send the samples.
UpdateFinish ==
  /\ UNCHANGED netVars
  /\ gpuPc = "returned"
  /\ IF retErr /= Nil
       THEN /\ logged' = TRUE
            /\ updateRet' = UpdateErrReturn(retErr)
            /\ UNCHANGED ch
       ELSE /\ ch' = Samples(Deref(retMetrics))
            /\ updateRet' = Nil
            /\ UNCHANGED logged
  /\ gpuPc' = "done"
  /\ UNCHANGED <<hw, initialized, deferred, shutdowns, calls, failedAt, index,
                 numDevices, device, readPos, loc, metrics, retMetrics, retErr>>

\* ======================================================================
\*                           network collector
\* ======================================================================

\* ---- platform side -----------------------------------------------------
IfaceNames == {"eth0", "lo"}
Seeds == {7, 100}

\* A net.IOCountersStat; every counter is a uint64 derived from the seed v.
IOCountersStat(name, v) ==
  [ Name        |-> name,
    BytesSent   |-> v,
    BytesRecv   |-> 2 * v,
    PacketsSent |-> v + 1,
    PacketsRecv |-> v + 2,
    Errin       |-> 1,
    Errout      |-> 2,
    Dropin      |-> 3,
    Dropout     |-> 4,
    Fifoin      |-> 5,
    Fifoout     |-> 6 ]

IfaceRecords == { IOCountersStat(n, v) : n \in IfaceNames, v \in Seeds }

RECURSIVE SeqsUpTo(_, _)
SeqsUpTo(S, n) ==
  IF n = 0 THEN { << >> }
  ELSE LET shorter == SeqsUpTo(S, n - 1)
       IN  shorter \cup { Append(q, x) : q \in shorter, x \in S }

IfaceLists == SeqsUpTo(IfaceRecords, MaxIfaces)

\* Fields of net.IOCountersStat with their json tags, in declaration order.
FieldTags ==
  << <<"Name", "name">>,
     <<"BytesSent", "bytesSent">>,
     <<"BytesRecv", "bytesRecv">>,
     <<"PacketsSent", "packetsSent">>,
     <<"PacketsRecv", "packetsRecv">>,
     <<"Errin", "errin">>,
     <<"Errout", "errout">>,
     <<"Dropin", "dropin">>,
     <<"Dropout", "dropout">>,
     <<"Fifoin", "fifoin">>,
     <<"Fifoout", "fifoout">> >>

\* ---- maps --------------------------------------------------------------
EmptyMap == [x \in {} |-> 0]

MapPut(m, k, v) == [x \in (DOMAIN m) \cup {k} |-> IF x = k THEN v ELSE m[x]]

\* The builtin delete(m, k).
deleteNothing(m, k) == m

delete(m, k) == [x \in (DOMAIN m) \ {k} |-> m[x]]

\* ---- the device filter -------------------------------------------------
\* filter.ignored(name): the filter is the set of names it ignores.
ignored(f, name) == name \in f

Filters == SUBSET IfaceNames

\* The `if filter.ignored(dev) { continue }` test of the loop, negated.
RetainedAlways(f, dev) == TRUE

Retained(f, dev) == ~ignored(f, dev)

\* ---- normalisation -----------------------------------------------------
\* json.Marshal(data): the members of the JSON object, in field order.  The
\* name is a JSON string, every counter a JSON number.
Marshal(data) ==
  [ k \in 1..Len(FieldTags) |->
      LET field == FieldTags[k][1]
          tag   == FieldTags[k][2]
      IN  IF field = "Name"
            THEN [key |-> tag, type |-> "string", s |-> data.Name, n |-> 0]
            ELSE [key |-> tag, type |-> "number", s |-> "", n |-> data[field]] ]

\* json.Unmarshal(statsBytes, &statistic) into a map[string]uint64: a number
\* is stored under its key; any other value stores the zero value under its
\* key and makes Unmarshal return an UnmarshalTypeError once it has decoded
\* the remaining members.
RECURSIVE Unmarshal(_, _)
Unmarshal(obj, acc) ==
  IF obj = << >> THEN acc
  ELSE LET mem == Head(obj)
       IN  IF mem.type = "number"
             THEN Unmarshal(Tail(obj), [acc EXCEPT !.m = MapPut(@, mem.key, mem.n)])
             ELSE Unmarshal(Tail(obj), [m   |-> MapPut(acc.m, mem.key, 0),
                                        err |-> Err("Unmarshal")])

\* parseToString(data).  marshalOk is the outcome of json.Marshal; the
\* error of json.Unmarshal is not assigned, it is reported here as decodeErr
\* only so that properties can refer to it.
parseToString(data, marshalOk) ==
  IF ~marshalOk
    THEN [statistic |-> NilRef, err |-> Err("Marshal"), decodeErr |-> Nil]
    ELSE LET decoded == Unmarshal(Marshal(data), [m |-> EmptyMap, err |-> Nil])
         IN  [statistic |-> Ref(delete(decoded.m, "name")),
              err       |-> Nil,
              decodeErr |-> decoded.err]

\* netDev := netDevStats{}
NewNetDevStats == EmptyMap

\* netDev[dev] = statistic
StoreStatDelta(m, dev, statistic) ==
  MapPut(m, dev,
         IF prevPass.ret /= NilRef /\ dev \in DOMAIN Deref(prevPass.ret)
           THEN [k \in DOMAIN statistic |-> statistic[k] - Deref(prevPass.ret)[dev][k]]
           ELSE statistic)

StoreStat(m, dev, statistic) == MapPut(m, dev, statistic)

\* First result of the `return nil, err` statements of the network pass.
NetErrResultPartial(m) == Ref(m)

NetErrResult(m) == NilRef

\* ---- actions -----------------------------------------------------------
NoPass == [valid |-> FALSE, ni |-> << >>, ret |-> NilRef, err |-> Nil]

NetInit ==
  /\ netPc = "idle"
  /\ filter \in Filters
  /\ ni = << >>
  /\ pos = 1
  /\ netDev = EmptyMap
  /\ netRet = NilRef
  /\ netErr = Nil
  /\ queryFailed = FALSE
  /\ marshalErrs = 0
  /\ decodeErrs = 0
  /\ prevPass = NoPass

\* getNetDevStats up to the first statement of parseNetDevStats:
\* net.IOCounters(true), its error return, netDev := netDevStats{}.
getNetDevStats ==
  /\ UNCHANGED gpuVars
  /\ netPc \in {"idle", "returned"}
  /\ prevPass' = IF netPc = "returned"
                   THEN [valid |-> TRUE, ni |-> ni, ret |-> netRet, err |-> netErr]
                   ELSE prevPass
  /\ marshalErrs' = 0
  /\ decodeErrs' = 0
  /\ pos' = 1
  /\ netDev' = NewNetDevStats
  /\ \/ /\ ni' \in IfaceLists
        /\ netRet' = NilRef
        /\ netErr' = Nil
        /\ queryFailed' = FALSE
        /\ netPc' = "loop"
     \/ /\ ni' = << >>
        /\ netRet' = NetErrResult(NewNetDevStats)
        /\ netErr' = Err("IOCounters")
        /\ queryFailed' = TRUE
        /\ netPc' = "returned"
  /\ UNCHANGED filter

\* Loop body for an ignored device: log and continue.
LoopIgnore ==
  /\ UNCHANGED gpuVars
  /\ netPc = "loop"
  /\ pos <= Len(ni)
  /\ ~Retained(filter, ni[pos].Name)
  /\ pos' = pos + 1
  /\ UNCHANGED <<netPc, filter, ni, netDev, netRet, netErr, queryFailed, marshalErrs,
                 decodeErrs, prevPass>>

\* Loop body for a retained device: parseToString, then store or return the error.
LoopParse ==
  /\ UNCHANGED gpuVars
  /\ netPc = "loop"
  /\ pos <= Len(ni)
  /\ Retained(filter, ni[pos].Name)
  /\ \E marshalOk \in BOOLEAN :
       LET r == parseToString(ni[pos], marshalOk)
       IN  /\ decodeErrs' = IF r.decodeErr /= Nil THEN decodeErrs + 1 ELSE decodeErrs
           /\ IF r.err /= Nil
                THEN /\ marshalErrs' = marshalErrs + 1
                     /\ netRet' = NetErrResult(netDev)
                     /\ netErr' = r.err
                     /\ netPc' = "returned"
                     /\ UNCHANGED <<netDev, pos>>
                ELSE /\ netDev' = StoreStat(netDev, ni[pos].Name, Deref(r.statistic))
                     /\ pos' = pos + 1
                     /\ UNCHANGED <<netPc, netRet, netErr, marshalErrs>>
  /\ UNCHANGED <<filter, ni, queryFailed, prevPass>>

\* End of the range loop: return netDev, nil.
LoopReturn ==
  /\ UNCHANGED gpuVars
  /\ netPc = "loop"
  /\ pos > Len(ni)
  /\ netRet' = Ref(netDev)
  /\ netErr' = Nil
  /\ netPc' = "returned"
  /\ UNCHANGED <<filter, ni, pos, netDev, queryFailed, marshalErrs, decodeErrs, prevPass>>

\* ======================================================================
\*                             specifications
\* ======================================================================
Init == GpuInit /\ NetInit

\* The GPU collector; the network collector is at rest.
NextGPU ==
  \/ UpdateStart
  \/ Initialize
  \/ SystemDriverVersion
  \/ DeviceCount
  \/ DeviceHandleByIndex
  \/ DeviceRead
  \/ AppendDevice
  \/ ReturnMetrics
  \/ RunDeferred
  \/ UpdateFinish

SpecGPU == Init /\ [][NextGPU]_vars

\* The network collector; the GPU collector is at rest.
NextNet ==
  \/ getNetDevStats
  \/ LoopIgnore
  \/ LoopParse
  \/ LoopReturn

SpecNet == Init /\ [][NextNet]_vars

\* ======================================================================
\*                         properties: GPU collector
\* ======================================================================
\* collectMetricDevice has returned (its deferred calls have run).
GpuReturned == gpuPc \in {"returned", "done"}

\* The call that failed in this pass, if any.
Failed(name) == failedAt /= 0 /\ calls[failedAt].call = name

FailedCall == calls[failedAt]

InitSucceeded ==
  \E k \in 1..Len(calls) : calls[k].call = "Initialize" /\ failedAt /= k

ShutdownCalls == Len(SelectSeq(calls, LAMBDA c : c.call = "Shutdown"))

\* C1: in every pass in which Initialize succeeded, Shutdown has been called
\* exactly once, as the last vendor call, by the time collectMetricDevice
\* returns, whichever exit path was taken; and whenever no pass is inside
\* collectMetricDevice the GPU management API is not initialized.
C1_ShutdownOnEveryExit ==
  /\ (GpuReturned /\ InitSucceeded) =>
        /\ shutdowns = 1
        /\ ShutdownCalls = 1
        /\ calls[Len(calls)].call = "Shutdown"
  /\ (GpuReturned /\ ~InitSucceeded) => ShutdownCalls = 0
  /\ gpuPc \in {"idle", "returned", "done"} => ~initialized

C1_Witness ==
  /\ gpuPc = "returned"
  /\ failedAt /= 0
  /\ FailedCall = Call("Temperature", 1)
  /\ shutdowns = 1
  /\ ~initialized

\* C2: when a per-device call (handle resolution or any telemetry read)
\* fails for device k after devices [0..k) were read, collectMetricDevice
\* returns a non-nil error and a nil *gpuMetrics, not the partial list.
C2_AllOrNothing ==
  (GpuReturned /\ failedAt /= 0 /\ FailedCall.index >= 0) =>
     /\ retErr /= Nil
     /\ retMetrics = NilRef

C2_Witness ==
  /\ gpuPc = "returned"
  /\ failedAt /= 0
  /\ FailedCall = Call("UUID", 1)
  /\ numDevices = 2
  /\ Len(Deref(metrics).Devices) = 1
  /\ retMetrics = NilRef

\* C5: when Initialize fails, collectMetricDevice yields no metrics, Update
\* sends no sample, returns nil to the poller, and the next pass can start.
C5_InitFailureIsSoft ==
  (gpuPc = "done" /\ Failed("Initialize")) =>
     /\ retMetrics = NilRef
     /\ ch = << >>
     /\ updateRet = Nil
     /\ ENABLED UpdateStart

C5_Witness ==
  /\ gpuPc = "done"
  /\ Failed("Initialize")
  /\ logged
  /\ Len(calls) = 1

\* C7: an error that aborts the pass after Initialize succeeded is returned
\* by Update to the poller as a non-nil value.
C7_ErrorReachesPoller ==
  (gpuPc = "done" /\ failedAt /= 0 /\ ~Failed("Initialize")) =>
     /\ updateRet /= Nil
     /\ updateRet = retErr

\* C9: a successful pass returns exactly hw.count device records in index
\* order; record i carries the decimal index i and the telemetry of the
\* handle resolved for index i, and Version is the driver version, which
\* was queried once in the pass.
C9_DeviceAt(g, i) ==
  LET d == g.Devices[i + 1]
      t == Telemetry(i, hw.variant)
  IN  /\ d.Index = Itoa(i)
      /\ d.MinorNumber = Itoa(t.MinorNumber)
      /\ d.Name = t.Name
      /\ d.UUID = t.UUID
      /\ d.Temperature = t.Temperature
      /\ d.PowerUsage = t.PowerUsage
      /\ d.FanSpeed = t.FanSpeed
      /\ d.MemoryTotal = t.MemoryTotal
      /\ d.MemoryUsed = t.MemoryUsed
      /\ d.UtilizationMemory = t.UtilMemory
      /\ d.UtilizationGPU = t.UtilGPU
      /\ d.UtilizationGPUAverage = t.UtilGPUAvg

C9_DevicesInIndexOrder ==
  (GpuReturned /\ retErr = Nil) =>
     /\ retMetrics /= NilRef
     /\ LET g == Deref(retMetrics)
        IN  /\ Len(g.Devices) = hw.count
            /\ g.Version = hw.version
            /\ \A i \in 0..(hw.count - 1) : C9_DeviceAt(g, i)
     /\ Len(SelectSeq(calls, LAMBDA c : c.call = "SystemDriverVersion")) = 1

C9_Witness ==
  /\ gpuPc = "returned"
  /\ retErr = Nil
  /\ hw.count = 2
  /\ Len(Deref(retMetrics).Devices) = 2
  /\ Deref(retMetrics).Devices[2].Index = "1"
  /\ Deref(retMetrics).Devices[2].MinorNumber = "11"

\* C10: the vendor calls of a pass are a prefix of Initialize,
\* SystemDriverVersion, DeviceCount, then for each index ascending
\* DeviceHandleByIndex, UUID, Name, MinorNumber, Temperature, PowerUsage,
\* FanSpeed, MemoryInfo, UtilizationRates, AverageGPUUtilization; the call
\* that fails is the last of them, followed only by Shutdown when Initialize
\* had succeeded; no call is made twice for the same device.
C10_SystemCalls == << "Initialize", "SystemDriverVersion", "DeviceCount" >>

C10_DeviceCalls ==
  << "DeviceHandleByIndex", "UUID", "Name", "MinorNumber", "Temperature",
     "PowerUsage", "FanSpeed", "MemoryInfo", "UtilizationRates",
     "AverageGPUUtilization" >>

C10_Expected(k) ==
  IF k <= 3 THEN [call |-> C10_SystemCalls[k], index |-> -1]
  ELSE [call  |-> C10_DeviceCalls[((k - 4) % 10) + 1],
        index |-> (k - 4) \div 10]

C10_FailFastInOrder ==
  LET work == Len(calls) - ShutdownCalls
  IN  /\ \A k \in 1..work : calls[k] = C10_Expected(k)
      /\ \A k \in (work + 1)..Len(calls) : calls[k].call = "Shutdown"
      /\ ShutdownCalls <= 1
      /\ ShutdownCalls = 1 => InitSucceeded
      /\ failedAt /= 0 => failedAt = work
      /\ work > 3 => work <= 3 + (10 * hw.count)

C10_Witness ==
  /\ gpuPc = "returned"
  /\ failedAt = 3 + 10 + 6
  /\ FailedCall = Call("PowerUsage", 1)
  /\ Len(calls) = failedAt + 1

\* ======================================================================
\*                       properties: network collector
\* ======================================================================
\* Names of the records of the pass that the filter does not ignore.
KeptNames == { ni[k].Name : k \in { j \in 1..Len(ni) : ~ignored(filter, ni[j].Name) } }

\* C3: no ignored device name is ever a key of the map being built or of the
\* map returned, and a pass that succeeds returns a map whose keys are
\* exactly the non-ignored names of the input.
C3_FilteredNamesAbsent ==
  /\ \A dev \in DOMAIN netDev : ~ignored(filter, dev)
  /\ netRet /= NilRef => \A dev \in DOMAIN Deref(netRet) : ~ignored(filter, dev)
  /\ (netPc = "returned" /\ netErr = Nil) =>
        /\ netRet /= NilRef
        /\ DOMAIN Deref(netRet) = KeptNames

C3_Witness ==
  /\ netPc = "returned"
  /\ netErr = Nil
  /\ filter = {"lo"}
  /\ ni = << IOCountersStat("eth0", 100), IOCountersStat("lo", 7) >>
  /\ DOMAIN Deref(netRet) = {"eth0"}
  /\ Deref(netRet)["eth0"]["bytesSent"] = 100
  /\ Deref(netRet)["eth0"]["bytesRecv"] = 200

\* C4: the normalized map stored for a retained record has exactly the json
\* names of the record's ten counters as keys, each mapped to that counter's
\* value, and never the key "name".
C4_CounterKeys ==
  { "bytesSent", "bytesRecv", "packetsSent", "packetsRecv", "errin", "errout",
    "dropin", "dropout", "fifoin", "fifoout" }

C4_Normalized(st, rec) ==
  /\ DOMAIN st = C4_CounterKeys
  /\ "name" \notin DOMAIN st
  /\ st["bytesSent"] = rec.BytesSent
  /\ st["bytesRecv"] = rec.BytesRecv
  /\ st["packetsSent"] = rec.PacketsSent
  /\ st["packetsRecv"] = rec.PacketsRecv
  /\ st["errin"] = rec.Errin
  /\ st["errout"] = rec.Errout
  /\ st["dropin"] = rec.Dropin
  /\ st["dropout"] = rec.Dropout
  /\ st["fifoin"] = rec.Fifoin
  /\ st["fifoout"] = rec.Fifoout

\* The last record named dev among those the loop has gone through.
C4_LastSeen(dev) ==
  ni[CHOOSE k \in 1..(pos - 1) :
        /\ ni[k].Name = dev
        /\ \A j \in (k + 1)..(pos - 1) : ni[j].Name /= dev]

C4_NormalizedExactly ==
  /\ \A dev \in DOMAIN netDev : C4_Normalized(netDev[dev], C4_LastSeen(dev))
  /\ netRet /= NilRef =>
       \A dev \in DOMAIN Deref(netRet) :
          C4_Normalized(Deref(netRet)[dev], C4_LastSeen(dev))

C4_Witness ==
  /\ netPc = "returned"
  /\ netErr = Nil
  /\ Len(ni) = 2
  /\ DOMAIN Deref(netRet) = {"eth0", "lo"}
  /\ Deref(netRet)["lo"]["packetsRecv"] = 102

\* C6: a pass in which the platform query failed, or in which json.Marshal
\* or json.Unmarshal reported an error for a retained record, returns a
\* non-nil error and a nil map.
C6_NoPartialOnFailure ==
  (netPc = "returned" /\ (queryFailed \/ marshalErrs > 0 \/ decodeErrs > 0)) =>
     /\ netErr /= Nil
     /\ netRet = NilRef

\* C8: two successive successful passes over the same interface records
\* (the filter never changes) return equal maps.
C8_Repeatable ==
  (/\ netPc = "returned"
   /\ prevPass.valid
   /\ prevPass.ni = ni
   /\ prevPass.err = Nil
   /\ netErr = Nil) => netRet = prevPass.ret

C8_Witness ==
  /\ netPc = "returned"
  /\ prevPass.valid
  /\ prevPass.ni = ni
  /\ prevPass.err = Nil
  /\ netErr = Nil
  /\ Len(ni) = 2
  /\ DOMAIN Deref(netRet) /= {}
  /\ netRet = prevPass.ret

====
